---------------------------- MODULE Spec2Model ----------------------------
(***************************************************************************)
(* Conway's Game of Life on a fixed ROW x COL board, as implemented in     *)
(* Conway-Game-Of-Life.cpp: main() populates currentGen at random, then    *)
(* repeats { fill nextGen cell by cell; print it; read a character;        *)
(* break on q/Q; break on a still life; otherwise copy nextGen over        *)
(* currentGen and clear nextGen }.                                         *)
(***************************************************************************)
EXTENDS Integers, Sequences, FiniteSets

VARIABLES
    pc,                 \* position of main(): init, compute, print, prompt, quitTest, compare, done
    currentGen,         \* int currentGen[ROW][COL]
    nextGen,            \* int nextGen[ROW][COL]
    generationCounter,  \* int generationCounter
    i, j,               \* indices of the nested loop that fills nextGen
    c,                  \* char c read by cin.get(); "none" while not in scope
    scan,               \* the latest countNeighbors call: its arguments, the reads it made, its result
    out,                \* the boards printed so far, each with the number of its "Generation N" label
    stillLife,          \* whether "Still life - No more generational changes" was printed
    identicalCalls,     \* number of calls of generationsAreIdentical so far
    exit                \* which break left the loop: "Running", "UserQuit" or "Stable"

vars == <<pc, currentGen, nextGen, generationCounter, i, j, c, scan, out,
          stillLife, identicalCalls, exit>>

---------------------------------------------------------------------------
(* Program constants *)

ROW == 5

COL == 4

\* rowCell[] and colCell[]; the code's index k is k + 1 here
rowCell == << -1, -1, -1,  0,  1, 0, 1, 1 >>

\* colCell with its last entry mistyped: the offset (1, 0) twice, (1, 1) never
colCell_Repeated == << -1,  1,  0, -1, -1, 1, 0, 0 >>

colCell == << -1,  1,  0, -1, -1, 1, 0, 1 >>

---------------------------------------------------------------------------
(* Bounds of the model *)

\* the random first generation has at most MaxAlive live cells ...
MaxAlive == 3

\* ... or at most MaxDead dead cells, or is a 2x2 block on an empty board
MaxDead == 2

\* no generation with a label above MaxGen is computed
MaxGen == 3

\* under LiveSpec the live cells of the first generation are among the first
\* LivePrefix cells of the board, counted row by row
LivePrefix == 9

---------------------------------------------------------------------------
(* Values *)

Rows == 0 .. (ROW - 1)

Cols == 0 .. (COL - 1)

Cells == Rows \X Cols

\* the characters cin.get() may deliver
Chars == {"q", "Q", "n", "\n"}

\* what an int that was never assigned may hold
IndeterminateInts == {-1, 0, 1}

\* an array that was declared and never assigned
UninitGrids == {[r \in Rows |-> [k \in Cols |-> v]] : v \in IndeterminateInts}

ZeroGrid == [r \in Rows |-> [k \in Cols |-> 0]]

GridOf(live) == [r \in Rows |-> [k \in Cols |-> IF <<r, k>> \in live THEN 1 ELSE 0]]

RECURSIVE CellSetsUpTo(_)
CellSetsUpTo(n) ==
    IF n = 0 THEN {{}}
    ELSE LET prev == CellSetsUpTo(n - 1)
         IN  prev \cup {s \cup {x} : s \in prev, x \in Cells}

\* the 2x2 block whose top left cell is <<r, k>>
BlockAt(r, k) == {<<r, k>>, <<r, k + 1>>, <<r + 1, k>>, <<r + 1, k + 1>>}

BlockGrids == {GridOf(BlockAt(r, k)) : r \in 0 .. (ROW - 2), k \in 0 .. (COL - 2)}

\* the outcomes of the population loop that the model explores
InitGrids ==
    {GridOf(s) : s \in CellSetsUpTo(MaxAlive)}
      \cup {GridOf(Cells \ s) : s \in CellSetsUpTo(MaxDead)}
      \cup BlockGrids

\* the outcomes of the population loop that LiveSpec explores
LiveGrids == {GridOf(s) : s \in SUBSET {p \in Cells : p[1] * COL + p[2] < LivePrefix}}

---------------------------------------------------------------------------
(* Functions of the program *)

isSafe(matrix, x, y) ==
    (x >= 0) /\ (x < ROW) /\ (y >= 0) /\ (y < COL)

\* the loop of countNeighbors: iteration k visits offset k; board[x][y] is
\* read only where isSafe holds (&& does not evaluate its right side
\* otherwise), and counter is the number of reads that found a 1
countNeighborsScan(board, r, col) ==
    LET offsets == [k \in 1 .. 8 |-> <<rowCell[k], colCell[k]>>]
        visited == [k \in 1 .. 8 |-> <<r + rowCell[k], col + colCell[k]>>]
        reads   == SelectSeq(visited, LAMBDA p : isSafe(board, p[1], p[2]))
    IN  [r |-> r, col |-> col,
         counter |-> Len(SelectSeq(reads, LAMBDA p : board[p[1]][p[2]] = 1)),
         reads   |-> reads,
         offsets |-> offsets]

countNeighbors(board, r, col) == countNeighborsScan(board, r, col).counter

\* the overpopulation test written totalNeighbors >= 3
NextCellValue_DiesOn3(cell, totalNeighbors) ==
    IF cell = 1
    THEN LET d1 == 0
             d2 == IF totalNeighbors = 2 \/ totalNeighbors = 3 THEN 1 ELSE d1
             d3 == IF totalNeighbors >= 3 THEN 0 ELSE d2
         IN  d3
    ELSE IF totalNeighbors = 3 THEN 1 ELSE 0

\* the reproduction test written totalNeighbors == 2
NextCellValue_BirthOn2(cell, totalNeighbors) ==
    IF cell = 1
    THEN LET d1 == 0
             d2 == IF totalNeighbors = 2 \/ totalNeighbors = 3 THEN 1 ELSE d1
             d3 == IF totalNeighbors > 3 THEN 0 ELSE d2
         IN  d3
    ELSE IF totalNeighbors = 2 THEN 1 ELSE 0

\* the decisions of the loop body: the value of nextGen[i][j] after the
\* default 0 and the sequence of ifs
NextCellValue(cell, totalNeighbors) ==
    LET d0 == 0
    IN  IF cell = 1
        THEN LET d1 == IF totalNeighbors < 2 THEN 0 ELSE d0
                 d2 == IF totalNeighbors = 2 \/ totalNeighbors = 3 THEN 1 ELSE d1
                 d3 == IF totalNeighbors > 3 THEN 0 ELSE d2
             IN  d3
        ELSE IF totalNeighbors = 3 THEN 1 ELSE d0

\* the loop body without its first statement, nextGen[i][j] = 0
CellStep_NoDefault(cur, nxt, r, col) ==
    [currentGen |-> cur,
     nextGen    |-> [nxt EXCEPT ![r][col] =
                        IF cur[r][col] = 1
                        THEN NextCellValue(1, countNeighbors(cur, r, col))
                        ELSE IF countNeighbors(cur, r, col) = 3 THEN 1 ELSE @]]

\* the loop body updating the board it reads: the new value is stored in
\* currentGen[i][j] as well
CellStep_InPlace(cur, nxt, r, col) ==
    LET v == NextCellValue(cur[r][col], countNeighbors(cur, r, col))
    IN  [currentGen |-> [cur EXCEPT ![r][col] = v],
         nextGen    |-> [nxt EXCEPT ![r][col] = v]]

\* one execution of the body of the nested loop, on both boards
CellStep(cur, nxt, r, col) ==
    [currentGen |-> cur,
     nextGen    |-> [nxt EXCEPT ![r][col] =
                        NextCellValue(cur[r][col], countNeighbors(cur, r, col))]]

\* the outer loop bound written i < r - 1: the last row is never compared
generationsAreIdentical_SkipsLastRow(board1, board2, r) ==
    \A x \in 0 .. (r - 2) : \A y \in Cols : board1[x][y] = board2[x][y]

generationsAreIdentical(board1, board2, r) ==
    \A x \in 0 .. (r - 1) : \A y \in Cols : board1[x][y] = board2[x][y]

\* the two assignments in the other order: board2 is cleared, then copied
makeCurrentGenSameAsNextGen_ClearsFirst(board1, board2, r) ==
    [board1 |-> [x \in Rows |-> IF x < r THEN [y \in Cols |-> 0] ELSE board1[x]],
     board2 |-> [x \in Rows |-> IF x < r THEN [y \in Cols |-> 0] ELSE board2[x]]]

makeCurrentGenSameAsNextGen(board1, board2, r) ==
    [board1 |-> [x \in Rows |-> IF x < r THEN board2[x] ELSE board1[x]],
     board2 |-> [x \in Rows |-> IF x < r THEN [y \in Cols |-> 0] ELSE board2[x]]]

\* the test without its second half: only the lower-case letter quits
QuitRequested_LowerCaseOnly(ch) == ch = "q"

QuitRequested(ch) == ch = "q" \/ ch = "Q"

---------------------------------------------------------------------------
(* The program *)

Init ==
    /\ pc = "init"
    /\ currentGen \in UninitGrids
    /\ nextGen \in UninitGrids
    /\ generationCounter = 1
    /\ i = 0
    /\ j = 0
    /\ c = "none"
    /\ scan = [r |-> 0, col |-> 0, counter |-> 0, reads |-> <<>>, offsets |-> <<>>]
    /\ out = <<>>
    /\ stillLife = FALSE
    /\ identicalCalls = 0
    /\ exit = "Running"

\* the first print without the ++ on generationCounter
PopulateFrom_NoIncrement(grids) ==
    /\ pc = "init"
    /\ \E g \in grids :
          /\ currentGen' = g
          /\ out' = Append(out, [label |-> generationCounter, board |-> g])
    /\ pc' = "compute"
    /\ i' = 0
    /\ j' = 0
    /\ UNCHANGED <<nextGen, generationCounter, c, scan, stillLife, identicalCalls, exit>>

\* the population loop, each rand() % 2 giving 0 or 1, with the outcome one
\* of grids; then the print of "Generation 1"
PopulateFrom(grids) ==
    /\ pc = "init"
    /\ \E g \in grids :
          /\ currentGen' = g
          /\ out' = Append(out, [label |-> generationCounter, board |-> g])
    /\ generationCounter' = generationCounter + 1
    /\ pc' = "compute"
    /\ i' = 0
    /\ j' = 0
    /\ UNCHANGED <<nextGen, c, scan, stillLife, identicalCalls, exit>>

Populate == PopulateFrom(InitGrids)

PopulateLive == PopulateFrom(LiveGrids)

\* one iteration of the nested loop that fills nextGen
ComputeCell ==
    /\ pc = "compute"
    /\ generationCounter <= MaxGen
    /\ scan' = countNeighborsScan(currentGen, i, j)
    /\ LET b == CellStep(currentGen, nextGen, i, j)
       IN  currentGen' = b.currentGen /\ nextGen' = b.nextGen
    /\ IF j + 1 < COL
       THEN i' = i /\ j' = j + 1 /\ pc' = pc
       ELSE IF i + 1 < ROW
            THEN i' = i + 1 /\ j' = 0 /\ pc' = pc
            ELSE i' = 0 /\ j' = 0 /\ pc' = "print"
    /\ UNCHANGED <<generationCounter, c, out, stillLife, identicalCalls, exit>>

\* printBoard(nextGen, "Generation " + to_string(generationCounter++))
PrintNextGen ==
    /\ pc = "print"
    /\ out' = Append(out, [label |-> generationCounter, board |-> nextGen])
    /\ generationCounter' = generationCounter + 1
    /\ pc' = "prompt"
    /\ UNCHANGED <<currentGen, nextGen, i, j, c, scan, stillLife, identicalCalls, exit>>

\* char c = cin.get()
ReadChar ==
    /\ pc = "prompt"
    /\ c' \in Chars
    /\ pc' = "quitTest"
    /\ UNCHANGED <<currentGen, nextGen, generationCounter, i, j, scan, out,
                   stillLife, identicalCalls, exit>>

\* the quit test placed after the stability check: on identical boards the
\* still life is announced whatever was typed
QuitTest_StabilityFirst ==
    /\ pc = "quitTest"
    /\ IF generationsAreIdentical(currentGen, nextGen, ROW)
       THEN pc' = "done" /\ exit' = "Stable" /\ stillLife' = TRUE
       ELSE IF QuitRequested(c)
            THEN pc' = "done" /\ exit' = "UserQuit" /\ stillLife' = stillLife
            ELSE pc' = "compare" /\ exit' = exit /\ stillLife' = stillLife
    /\ UNCHANGED <<currentGen, nextGen, generationCounter, i, j, c, scan, out,
                   identicalCalls>>

\* if (c == 'q' || c == 'Q') break;
QuitTest ==
    /\ pc = "quitTest"
    /\ IF QuitRequested(c)
       THEN pc' = "done" /\ exit' = "UserQuit"
       ELSE pc' = "compare" /\ exit' = exit
    /\ UNCHANGED <<currentGen, nextGen, generationCounter, i, j, c, scan, out,
                   stillLife, identicalCalls>>

\* the stability check and, on a difference, the copy
Compare ==
    /\ pc = "compare"
    /\ identicalCalls' = identicalCalls + 1
    /\ IF generationsAreIdentical(currentGen, nextGen, ROW)
       THEN /\ stillLife' = TRUE
            /\ pc' = "done"
            /\ exit' = "Stable"
            /\ UNCHANGED <<currentGen, nextGen, c>>
       ELSE LET m == makeCurrentGenSameAsNextGen(currentGen, nextGen, ROW)
            IN  /\ currentGen' = m.board1
                /\ nextGen' = m.board2
                /\ pc' = "compute"
                /\ c' = "none"
                /\ UNCHANGED <<stillLife, exit>>
    /\ UNCHANGED <<generationCounter, i, j, scan, out>>

\* a step of the do-while loop
LoopStep ==
    \/ ComputeCell
    \/ PrintNextGen
    \/ ReadChar
    \/ QuitTest
    \/ Compare

Next == Populate \/ LoopStep

Spec == Init /\ [][Next]_vars

LiveNext == PopulateLive \/ LoopStep

\* the loop runs on, and cin.get() returns: a step of the loop that can be
\* taken is taken
LiveSpec == Init /\ [][LiveNext]_vars /\ WF_vars(LoopStep)

TypeOK ==
    /\ pc \in {"init", "compute", "print", "prompt", "quitTest", "compare", "done"}
    /\ i \in Rows /\ j \in Cols
    /\ c \in Chars \cup {"none"}
    /\ exit \in {"Running", "UserQuit", "Stable"}

---------------------------------------------------------------------------
(* The rule of the game, stated independently of the program *)

\* the eight surrounding positions, relative to a cell
Surrounding == ((-1 .. 1) \X (-1 .. 1)) \ {<<0, 0>>}

\* the cells around <<r, k>> that lie on the board
Around(r, k) ==
    {<<r + d[1], k + d[2]>> : d \in {e \in Surrounding : r + e[1] \in Rows /\ k + e[2] \in Cols}}

LiveAround(G, r, k) == Cardinality({p \in Around(r, k) : G[p[1]][p[2]] = 1})

RuleValue(G, r, k) ==
    LET n == LiveAround(G, r, k)
    IN  IF (G[r][k] = 1 /\ n \in {2, 3}) \/ (G[r][k] = 0 /\ n = 3) THEN 1 ELSE 0

Rule(G) == [r \in Rows |-> [k \in Cols |-> RuleValue(G, r, k)]]

\* the same rule on the set of live cells of a board
LiveCells(G) == {p \in Cells : G[p[1]][p[2]] = 1}

RuleOnCells(S) ==
    {p \in Cells :
        LET n == Cardinality(Around(p[1], p[2]) \cap S)
        IN  (p \in S /\ n \in {2, 3}) \/ (p \notin S /\ n = 3)}

RECURSIVE RuleOnCellsIter(_, _)
RuleOnCellsIter(S, n) == IF n = 0 THEN S ELSE RuleOnCells(RuleOnCellsIter(S, n - 1))

\* the rule applied n times to a board of zeros and ones
RuleIter(G, n) == GridOf(RuleOnCellsIter(LiveCells(G), n))

\* the nested loop has filled all of nextGen from the present currentGen
PassComplete == pc \in {"print", "prompt", "quitTest", "compare", "done"}

---------------------------------------------------------------------------
(* Claims *)

\* C1: after one pass of the generation-computing loop, nextGen[i][j] = 1
\* exactly when currentGen[i][j] is alive with 2 or 3 live in-bounds
\* neighbours or dead with exactly 3, and 0 in every other case.
C1_PassAppliesRule ==
    PassComplete =>
        \A p \in Cells : nextGen[p[1]][p[2]] = RuleValue(currentGen, p[1], p[2])

\* a finished pass over a board with a survivor, a birth and a death by
\* overpopulation
C1_Witness ==
    /\ pc = "print"
    /\ \E p \in Cells : currentGen[p[1]][p[2]] = 1 /\ LiveAround(currentGen, p[1], p[2]) \in {2, 3}
                          /\ nextGen[p[1]][p[2]] = 1
    /\ \E p \in Cells : currentGen[p[1]][p[2]] = 0 /\ LiveAround(currentGen, p[1], p[2]) = 3
                          /\ nextGen[p[1]][p[2]] = 1
    /\ \E p \in Cells : currentGen[p[1]][p[2]] = 1 /\ LiveAround(currentGen, p[1], p[2]) > 3
                          /\ nextGen[p[1]][p[2]] = 0

\* the latest countNeighbors call was made on the present currentGen
ScanIsCurrent == scan.offsets # <<>> /\ ~(pc = "compute" /\ i = 0 /\ j = 0)

SeqRange(s) == {s[n] : n \in 1 .. Len(s)}

IsCorner(r, k) == r \in {0, ROW - 1} /\ k \in {0, COL - 1}

\* C2: countNeighbors reads board[x][y] only at in-bounds positions (no
\* wraparound), visits each of the 8 distinct offsets exactly once, and
\* returns a value in 0..8 equal to the number of live in-bounds neighbours;
\* at a corner it reads only the 3 in-bounds neighbours and returns at most 3.
C2_CountNeighbors ==
    ScanIsCurrent =>
        /\ SeqRange(scan.reads) \subseteq Cells
        /\ SeqRange(scan.reads) = Around(scan.r, scan.col)
        /\ Len(scan.reads) = Cardinality(Around(scan.r, scan.col))
        /\ Len(scan.offsets) = 8
        /\ SeqRange(scan.offsets) = Surrounding
        /\ scan.counter \in 0 .. 8
        /\ scan.counter = LiveAround(currentGen, scan.r, scan.col)
        /\ IsCorner(scan.r, scan.col) => Len(scan.reads) = 3 /\ scan.counter <= 3

\* a call at a corner all of whose three neighbours are alive
C2_Witness ==
    /\ ScanIsCurrent
    /\ IsCorner(scan.r, scan.col)
    /\ scan.counter = 3
    /\ Len(scan.reads) = 3

\* the letters that ask to quit
IsQuitChar(ch) == ch \in {"q", "Q"}

\* C3 as stated: whenever the freshly computed next generation equals the
\* current one, the driver terminates in Stable whatever the user types.
C3_StableWhateverTyped ==
    (pc = "done" /\ nextGen = currentGen) => exit = "Stable"

\* C3 as amended: on identical boards the driver terminates in Stable,
\* announcing the still life, only when the character typed is not q/Q; on
\* q/Q it terminates in UserQuit without the announcement, so the quit
\* request decides the outcome whether or not the boards differ.
C3_StableUnlessQuit ==
    [][ /\ (pc = "quitTest" /\ nextGen = currentGen) =>
              IF IsQuitChar(c)
              THEN pc' = "done" /\ exit' = "UserQuit" /\ ~stillLife'
              ELSE pc' = "compare" /\ exit' = "Running"
        /\ (pc = "compare" /\ nextGen = currentGen) =>
              pc' = "done" /\ exit' = "Stable" /\ stillLife' ]_vars

\* the user quit on a still life, which was not announced
C3_Witness ==
    /\ pc = "done"
    /\ exit = "UserQuit"
    /\ nextGen = currentGen
    /\ ~stillLife

\* C4: on q or Q the program terminates right after the generation just
\* printed: generationsAreIdentical is not called, "Still life" is not
\* printed and both boards stay as they were at the prompt; every other
\* character, and only such a character, leads to the stability check.
C4_QuitBeforeStabilityCheck ==
    /\ [][ pc = "quitTest" =>
              IF IsQuitChar(c)
              THEN /\ pc' = "done"
                   /\ exit' = "UserQuit"
                   /\ identicalCalls' = identicalCalls
                   /\ ~stillLife'
                   /\ currentGen' = currentGen
                   /\ nextGen' = nextGen
                   /\ out' = out
              ELSE pc' = "compare" ]_vars
    /\ [][ pc = "done" => UNCHANGED vars ]_vars
    /\ [](pc = "compare" => ~IsQuitChar(c))

\* Q typed at the second prompt ended the program
C4_Witness ==
    /\ pc = "done"
    /\ c = "Q"
    /\ exit = "UserQuit"
    /\ identicalCalls = 1
    /\ Len(out) = 3

\* C5: the loop ends in exactly two ways: Stable, only where nextGen equals
\* currentGen, which is then a fixed point of the rule, and UserQuit, only
\* on q/Q; so without q/Q the program ends only at a fixed point.
C5_TwoExits ==
    /\ pc = "done" <=> exit # "Running"
    /\ pc = "done" =>
          \/ /\ exit = "Stable"
             /\ nextGen = currentGen
             /\ Rule(currentGen) = currentGen
             /\ ~IsQuitChar(c)
          \/ /\ exit = "UserQuit"
             /\ IsQuitChar(c)

\* the program ended on a still life that the first generation was not
C5_Witness ==
    /\ pc = "done"
    /\ exit = "Stable"
    /\ identicalCalls = 2
    /\ out[1].board # currentGen

\* C6: the labels are 1, 2, 3, ... and the board labelled N is the rule
\* applied N - 1 times to the first generation, which is the board labelled
\* 1; at the head of the loop the counter is 2 plus the number of times the
\* next board was adopted, so it advances by one for each adoption.
C6_Labels ==
    /\ [][ out' # out =>
              /\ out' = Append(out, [label |-> Len(out) + 1, board |-> out'[Len(out')].board])
              /\ out'[1].board = IF out = <<>> THEN currentGen' ELSE out[1].board
              /\ out'[Len(out')].board = RuleIter(out'[1].board, Len(out))
              /\ generationCounter' = generationCounter + 1 ]_vars
    /\ [][ generationCounter' # generationCounter => out' # out ]_vars
    /\ [](pc # "init" => generationCounter = Len(out) + 1)
    /\ [](pc = "compute" =>
              /\ generationCounter = identicalCalls + 2
              /\ currentGen = out[Len(out)].board)

\* three boards printed, each differing from the one before
C6_Witness ==
    /\ Len(out) = 3
    /\ out[3].label = 3
    /\ out[2].board # out[1].board
    /\ out[3].board # out[2].board

\* C7: the nested loop, countNeighbors and generationsAreIdentical leave
\* currentGen as it is; after the population loop currentGen changes only
\* in makeCurrentGenSameAsNextGen, which runs only when the input was not
\* q/Q and the boards differ, and which leaves currentGen equal to the
\* previous nextGen and nextGen all zeros.
C7_CurrentGenFrame ==
    [][ pc # "init" =>
          /\ currentGen' # currentGen =>
                /\ pc = "compare"
                /\ ~IsQuitChar(c)
                /\ nextGen # currentGen
          /\ (pc = "compare" /\ nextGen # currentGen) =>
                /\ currentGen' = nextGen
                /\ nextGen' = ZeroGrid
          /\ (pc = "compare" /\ nextGen = currentGen) =>
                /\ currentGen' = currentGen
                /\ nextGen' = nextGen ]_vars

\* the next board was adopted and the second pass is under way
C7_Witness ==
    /\ pc = "compute"
    /\ identicalCalls = 1
    /\ <<i, j>> = <<2, 1>>
    /\ currentGen = out[2].board
    /\ currentGen # out[1].board
    /\ currentGen # ZeroGrid

IsBinary(G) == \A p \in Cells : G[p[1]][p[2]] \in {0, 1}

HasBoardShape(G) == DOMAIN G = Rows /\ \A r \in Rows : DOMAIN G[r] = Cols

\* the nested loop has assigned nextGen[r][k] at least once
Assigned(r, k) ==
    \/ Len(out) >= 2
    \/ PassComplete
    \/ pc = "compute" /\ (r < i \/ (r = i /\ k < j))

\* C8 as stated: in every reachable state every cell of currentGen and of
\* nextGen holds 0 or 1, and both boards are ROW x COL.
C8_AlwaysBinary ==
    /\ IsBinary(currentGen) /\ IsBinary(nextGen)
    /\ HasBoardShape(currentGen) /\ HasBoardShape(nextGen)

\* C8 as amended: both boards are ROW x COL in every state; every cell of
\* currentGen holds 0 or 1 once the population loop has run, and a cell of
\* nextGen holds 0 or 1 once the nested loop has assigned it.
C8_BinaryOnceAssigned ==
    /\ HasBoardShape(currentGen) /\ HasBoardShape(nextGen)
    /\ pc # "init" => IsBinary(currentGen)
    /\ \A p \in Cells : Assigned(p[1], p[2]) => nextGen[p[1]][p[2]] \in {0, 1}

\* half way through the first pass, the rest of nextGen still unassigned
C8_Witness ==
    /\ pc = "compute"
    /\ Len(out) = 1
    /\ <<i, j>> = <<2, 2>>
    /\ nextGen[ROW - 1][COL - 1] = -1
    /\ \E p \in Cells : Assigned(p[1], p[2]) /\ nextGen[p[1]][p[2]] = 1

\* C9: from a 2x2 block on an otherwise dead board the next generation is
\* identical; Generation 1 and an identical Generation 2 are printed, and
\* with a non-quit input the still life is reported at the first stability
\* check; currentGen never changes.
C9_BlockIsStillLife ==
    (Len(out) >= 1 /\ out[1].board \in BlockGrids) =>
        /\ currentGen = out[1].board
        /\ PassComplete => nextGen = currentGen
        /\ Len(out) <= 2
        /\ Len(out) = 2 => out[2] = [label |-> 2, board |-> out[1].board]
        /\ pc = "compute" => identicalCalls = 0
        /\ (pc = "done" /\ ~IsQuitChar(c)) =>
              exit = "Stable" /\ stillLife /\ identicalCalls = 1

\* a block was reported as a still life
C9_Witness ==
    /\ Len(out) = 2
    /\ out[1].board \in BlockGrids
    /\ pc = "done"
    /\ exit = "Stable"
    /\ stillLife

\* the first generation reaches a fixed point of the rule early enough for
\* the model to compute the generation after it
StabilisesInTime(G) ==
    \E n \in 0 .. (MaxGen - 2) : Rule(RuleIter(G, n)) = RuleIter(G, n)

\* the first generations of LiveSpec that do
StabilisingGrids == {G \in LiveGrids : StabilisesInTime(G)}

\* "Generation 1" has just been printed, and it is such a first generation
StartsTowardsStillLife ==
    /\ pc = "compute"
    /\ Len(out) = 1
    /\ <<i, j>> = <<0, 0>>
    /\ currentGen \in StabilisingGrids

\* the program has ended on the first fixed point of its trajectory
EndedAtFirstFixedPoint ==
    /\ pc = "done"
    /\ exit = "Stable"
    /\ stillLife
    /\ currentGen = RuleIter(out[1].board, identicalCalls - 1)
    /\ \A n \in 0 .. (identicalCalls - 2) :
          Rule(RuleIter(out[1].board, n)) # RuleIter(out[1].board, n)

\* C10: if no input is q/Q and the generations from the first one reach a
\* board whose successor is itself, the program eventually prints the still
\* life message and terminates, in the first iteration in which currentGen
\* is that board; until then each non-quit input on differing boards makes
\* currentGen take the value of nextGen and the loop repeat.
C10_EventuallyStable ==
    /\ [](~IsQuitChar(c)) =>
          (StartsTowardsStillLife ~> EndedAtFirstFixedPoint)
    /\ [][ (pc = "compare" /\ nextGen # currentGen) =>
              (currentGen' = nextGen /\ pc' = "compute") ]_vars

\* the still life was reached after one change of board
C10_Witness ==
    /\ EndedAtFirstFixedPoint
    /\ identicalCalls = 2
    /\ c = "n"

=============================================================================
